---- MODULE Spec2Model ----
(***************************************************************************)
(* Model of the content discovery and crawl pipeline of                    *)
(* frontend-extention/content-script.js: class AdvancedWebsiteAnalyzer,    *)
(* the single shared instance enhancedAnalyzer and the onMessage listener. *)
(*                                                                         *)
(* JavaScript strings are sequences of one-character strings.  Every       *)
(* `await` is a point where another callback may run, so every action is   *)
(* the code between two awaits.                                            *)
(*                                                                         *)
(* The class calls methods that the source file does not define            *)
(* (analyzeCurrentPage, checkRobotsTxt, generateCommonSupportUrls,         *)
(* getLinkLocation and the extract/identify helpers of the later phases).  *)
(* They are taken to exist and to return; analyzeCurrentPage may fail,     *)
(* checkRobotsTxt may throw.                                               *)
(*                                                                         *)
(* SpecCrawl is one call of crawlSupportPages on every list of links up    *)
(* to MaxLinks, and SpecCrawlLive adds the fairness of the event loop;     *)
(* Spec is the listener serving NumRuns messages on the one shared         *)
(* analyzer; SpecSession is one message on a wider choice of documents,    *)
(* sitemaps and robots.txt answers; SpecUtility is one call of a utility   *)
(* method (categorizeLink, resolveUrl, extractLists).                      *)
(***************************************************************************)
EXTENDS Integers, Sequences, FiniteSets, TLC

(***************************************************************************)
(* Bounds of the model.                                                    *)
(***************************************************************************)
\* longest list of links handed to crawlSupportPages in SpecCrawl
MaxLinks == 5
\* number of performDeepAnalysis messages the listener handles in Spec
NumRuns == 2

\* most words in a URL path and in an anchor text given to categorizeLink
MaxWords == 2

\* most ul/ol elements in a document given to extractLists, and most li
\* elements in one of them
MaxItems == 2

\* longest list of a[href] elements in the document
MaxAnchors == 2
\* how many entries of supportPatterns generateCommonSupportUrls is run on
NumPatterns == 1

Runs == 1..NumRuns

(***************************************************************************)
(* JavaScript values.                                                      *)
(***************************************************************************)
\* undefined, for string-valued fields that hold a name (source, location, error)
Undefined == "undefined"
\* a value that may be null or undefined is a sequence: empty, or the one value
Null == <<>>
Some(v) == <<v>>

Range(s) == {s[k] : k \in 1..Len(s)}

\* String.prototype.startsWith
StartsWith(s, p) == Len(s) >= Len(p) /\ SubSeq(s, 1, Len(p)) = p

\* String.prototype.includes
Includes(s, k) == \E j \in 0..(Len(s) - Len(k)) : SubSeq(s, j + 1, j + Len(k)) = k

UpperToLower ==
  [A |-> "a", B |-> "b", C |-> "c", D |-> "d", E |-> "e", F |-> "f", G |-> "g",
   H |-> "h", I |-> "i", J |-> "j", K |-> "k", L |-> "l", M |-> "m", N |-> "n",
   O |-> "o", P |-> "p", Q |-> "q", R |-> "r", S |-> "s", T |-> "t", U |-> "u",
   V |-> "v", W |-> "w", X |-> "x", Y |-> "y", Z |-> "z"]

\* String.prototype.toLowerCase
ToLowerCase(s) ==
  [k \in 1..Len(s) |-> IF s[k] \in DOMAIN UpperToLower THEN UpperToLower[s[k]] ELSE s[k]]

IsSpace(c) == c = " "

RECURSIVE TrimStart(_)
TrimStart(s) == IF s # <<>> /\ IsSpace(Head(s)) THEN TrimStart(Tail(s)) ELSE s

RECURSIVE TrimEnd(_)
TrimEnd(s) ==
  IF s # <<>> /\ IsSpace(s[Len(s)]) THEN TrimEnd(SubSeq(s, 1, Len(s) - 1)) ELSE s

\* String.prototype.trim
Trim(s) == TrimEnd(TrimStart(s))

(***************************************************************************)
(* constructor: the keyword tables.                                        *)
(***************************************************************************)
\* this.contentTypes, in declaration order (Object.entries order)
contentTypes ==
  << [category |-> "faq",
      keywords |-> << <<"f","a","q">>,
                      <<"f","r","e","q","u","e","n","t","l","y"," ","a","s","k","e","d">>,
                      <<"c","o","m","m","o","n"," ","q","u","e","s","t","i","o","n","s">> >>],
     [category |-> "policy",
      keywords |-> << <<"p","o","l","i","c","y">>,
                      <<"t","e","r","m","s">>,
                      <<"c","o","n","d","i","t","i","o","n","s">>,
                      <<"a","g","r","e","e","m","e","n","t">> >>],
     [category |-> "contact",
      keywords |-> << <<"c","o","n","t","a","c","t">>,
                      <<"s","u","p","p","o","r","t">>,
                      <<"h","e","l","p">>,
                      <<"c","u","s","t","o","m","e","r"," ","s","e","r","v","i","c","e">> >>],
     [category |-> "billing",
      keywords |-> << <<"b","i","l","l","i","n","g">>,
                      <<"p","a","y","m","e","n","t">>,
                      <<"s","u","b","s","c","r","i","p","t","i","o","n">>,
                      <<"p","r","i","c","i","n","g">> >>],
     [category |-> "cancellation",
      keywords |-> << <<"c","a","n","c","e","l">>,
                      <<"c","a","n","c","e","l","l","a","t","i","o","n">>,
                      <<"u","n","s","u","b","s","c","r","i","b","e">>,
                      <<"t","e","r","m","i","n","a","t","e">> >>],
     [category |-> "refund",
      keywords |-> << <<"r","e","f","u","n","d">>,
                      <<"r","e","t","u","r","n">>,
                      <<"m","o","n","e","y"," ","b","a","c","k">>,
                      <<"r","e","i","m","b","u","r","s","e","m","e","n","t">> >>] >>

\* supportKeywords of isSupportRelated
supportKeywords ==
  << <<"h","e","l","p">>, <<"s","u","p","p","o","r","t">>, <<"f","a","q">>,
     <<"c","o","n","t","a","c","t">>, <<"c","u","s","t","o","m","e","r">>,
     <<"s","e","r","v","i","c","e">>,
     <<"d","o","c","u","m","e","n","t","a","t","i","o","n">>, <<"d","o","c","s">>,
     <<"k","n","o","w","l","e","d","g","e">>, <<"c","a","n","c","e","l">>,
     <<"r","e","f","u","n","d">>, <<"b","i","l","l","i","n","g">>,
     <<"p","a","y","m","e","n","t">>, <<"t","e","r","m","s">>,
     <<"p","o","l","i","c","y">>, <<"p","r","i","v","a","c","y">> >>

\* (url + ' ' + text) without toLowerCase()
CombinedCaseSensitive(url, text) == url \o <<" ">> \o text

\* (url + ' ' + text).toLowerCase()
Combined(url, text) == ToLowerCase(url \o <<" ">> \o text)

isSupportRelated(url, text) ==
  \E k \in 1..Len(supportKeywords) : Includes(Combined(url, text), supportKeywords[k])

\* does some keyword of contentTypes[c] occur in combined
CategoryMatches(c, combined) ==
  \E k \in 1..Len(contentTypes[c].keywords) : Includes(combined, contentTypes[c].keywords[k])

\* categorizeLink without its final return: undefined when no category has a keyword
categorizeLinkNoDefault(url, text) ==
  LET combined == Combined(url, text)
      hits == {c \in 1..Len(contentTypes) : CategoryMatches(c, combined)}
  IN  IF hits = {} THEN Undefined
      ELSE contentTypes[CHOOSE c \in hits : \A d \in hits : c <= d].category

\* the last category with a keyword instead of the first one
categorizeLinkLast(url, text) ==
  LET combined == Combined(url, text)
      hits == {c \in 1..Len(contentTypes) : CategoryMatches(c, combined)}
  IN  IF hits = {} THEN "general"
      ELSE contentTypes[CHOOSE c \in hits : \A d \in hits : c >= d].category

categorizeLink(url, text) ==
  LET combined == Combined(url, text)
      hits == {c \in 1..Len(contentTypes) : CategoryMatches(c, combined)}
  IN  IF hits = {} THEN "general"
      ELSE contentTypes[CHOOSE c \in hits : \A d \in hits : c <= d].category

(***************************************************************************)
(* The site the content script runs on.                                    *)
(***************************************************************************)
\* window.location.origin
Origin == <<"h","t","t","p",":","/","/","a",".","i","o">>

UrlHelp == Origin \o <<"/","h","e","l","p">>
UrlContact == Origin \o <<"/","c","o","n","t","a","c","t">>
TextFaq == <<"f","a","q">>
UrlAbout == Origin \o <<"/","a","b","o","u","t">>

\* window.location.href
LocationHref == Origin \o <<"/","d","/","p">>

\* this.supportPatterns
supportPatterns ==
  << <<"/","h","e","l","p">>, <<"/","s","u","p","p","o","r","t">>, <<"/","f","a","q">>,
     <<"/","c","o","n","t","a","c","t">>,
     <<"/","c","u","s","t","o","m","e","r","-","s","e","r","v","i","c","e">>,
     <<"/","d","o","c","u","m","e","n","t","a","t","i","o","n">>, <<"/","d","o","c","s">>,
     <<"/","k","n","o","w","l","e","d","g","e","-","b","a","s","e">>,
     <<"/","h","e","l","p","-","c","e","n","t","e","r">>,
     <<"/","c","a","n","c","e","l","l","a","t","i","o","n">>, <<"/","r","e","f","u","n","d">>,
     <<"/","b","i","l","l","i","n","g">>, <<"/","t","e","r","m","s">>,
     <<"/","p","o","l","i","c","y">> >>

(***************************************************************************)
(* resolveUrl                                                              *)
(***************************************************************************)
Letters ==
  {"a","b","c","d","e","f","g","h","i","j","k","l","m","n","o","p","q","r","s","t","u",
   "v","w","x","y","z"} \cup DOMAIN UpperToLower

\* the length of the scheme of href, with its colon; 0 when href has no scheme
SchemeLen(href) ==
  LET colons == {k \in 2..Len(href) :
                   href[k] = ":" /\ \A m \in 1..(k - 1) : href[m] \in Letters}
  IN  IF colons = {} THEN 0 ELSE CHOOSE k \in colons : \A m \in colons : k <= m

\* the schemes whose URLs must have a host
SpecialSchemes == { <<"f","t","p",":">>, <<"w","s",":">>, <<"w","s","s",":">>,
                    <<"h","t","t","p",":">>, <<"h","t","t","p","s",":">> }

RECURSIVE StripSlashes(_)
StripSlashes(s) == IF s # <<>> /\ Head(s) = "/" THEN StripSlashes(Tail(s)) ELSE s

\* base up to and with its last slash
RECURSIVE Directory(_)
Directory(base) ==
  IF base = <<>> \/ base[Len(base)] = "/" THEN base
  ELSE Directory(SubSeq(base, 1, Len(base) - 1))

\* the position of the first slash of s, 0 when s has none
FirstSlash(s) ==
  LET at == {k \in 1..Len(s) : s[k] = "/"}
  IN  IF at = {} THEN 0 ELSE CHOOSE k \in at : \A m \in at : k <= m

\* new URL(href, base).href for the hrefs of the model.  A href with a
\* special scheme is serialized with its scheme and host in lower case and a
\* path of at least "/", and is invalid (the constructor throws) without a
\* host; a href with another scheme keeps what follows the scheme; an empty
\* href is the base; a plain path is joined to the directory of base
NewURL(href, base) ==
  LET n == SchemeLen(href)
      scheme == ToLowerCase(SubSeq(href, 1, n))
      rest == StripSlashes(SubSeq(href, n + 1, Len(href)))
      slash == FirstSlash(rest)
      host == IF slash = 0 THEN rest ELSE SubSeq(rest, 1, slash - 1)
      path == IF slash = 0 THEN <<"/">> ELSE SubSeq(rest, slash, Len(rest))
  IN  IF n > 0
      THEN IF scheme \in SpecialSchemes
           THEN IF rest = <<>> THEN [threw |-> TRUE, href |-> <<>>]
                ELSE [threw |-> FALSE,
                      href |-> scheme \o <<"/","/">> \o ToLowerCase(host) \o path]
           ELSE [threw |-> FALSE, href |-> scheme \o SubSeq(href, n + 1, Len(href))]
      ELSE IF href = <<>> THEN [threw |-> FALSE, href |-> base]
      ELSE [threw |-> FALSE, href |-> Directory(base) \o href]

\* resolveUrl(href): the URL, or the exception of new URL
resolveUrl(href) ==
  IF StartsWith(href, <<"h","t","t","p">>) THEN [threw |-> FALSE, href |-> href]
  ELSE IF StartsWith(href, <<"/">>) THEN [threw |-> FALSE, href |-> Origin \o href]
  ELSE NewURL(href, LocationHref)

\* the link object findNavigationLinks pushes for an anchor
NavLink(url, text, location, ref) ==
  [url |-> url, text |-> Some(text), type |-> categorizeLink(url, text),
   location |-> location, source |-> Undefined, ref |-> ref]

\* the link object checkSitemap pushes for a <loc>
SitemapLink(url, ref) ==
  [url |-> url, text |-> Null, type |-> categorizeLink(url, <<>>),
   location |-> Undefined, source |-> "sitemap", ref |-> ref]

(***************************************************************************)
(* The fetch proxy: what the background script may answer to a             *)
(* fetchPageContent message.                                               *)
(***************************************************************************)
Documents == {[title |-> "T"]}

\* {success, html?, error?}; present = FALSE is the callback called with no response
Responses ==
  {[present |-> TRUE, success |-> TRUE, html |-> Some(d), error |-> Undefined] :
     d \in Documents}
    \cup {[present |-> TRUE, success |-> FALSE, html |-> Null, error |-> "HTTP 404"],
          [present |-> TRUE, success |-> FALSE, html |-> Null, error |-> Undefined],
          [present |-> FALSE, success |-> FALSE, html |-> Null, error |-> Undefined]}

\* extractContentFromHtml, reduced to the title field of the content record;
\* without html the parser is given undefined and the document has no title
extractContentFromHtml(html) == [title |-> IF html = Null THEN "" ELSE html[1].title]

(***************************************************************************)
(* crawlSinglePage: how the promise settles when the callback of           *)
(* chrome.runtime.sendMessage is called with response.                     *)
(***************************************************************************)
\* the response?.error || 'Failed to fetch content' of the rejection
ErrorMessage(response) ==
  IF response.present /\ response.error # Undefined /\ response.error # ""
  THEN response.error ELSE "Failed to fetch content"

\* the callback without the test of response.success
crawlSinglePageNoSuccessTest(response) ==
  IF response.present
  THEN [state |-> "fulfilled", content |-> Some(extractContentFromHtml(response.html)),
        message |-> Undefined]
  ELSE [state |-> "rejected", content |-> Null, message |-> ErrorMessage(response)]

crawlSinglePage(response) ==
  IF response.present /\ response.success
  THEN [state |-> "fulfilled", content |-> Some(extractContentFromHtml(response.html)),
        message |-> Undefined]
  ELSE [state |-> "rejected", content |-> Null, message |-> ErrorMessage(response)]

(***************************************************************************)
(* extractLists.  A document is the sequence of its ul and ol elements in  *)
(* document order, each with the textContent of its li elements.           *)
(***************************************************************************)
\* the lists of doc from element k on, pushed after found
RECURSIVE ScanLists(_, _, _)
ScanLists(doc, k, found) ==
  IF k > Len(doc) THEN found
  ELSE LET items == [n \in 1..Len(doc[k].items) |-> Trim(doc[k].items[n])]
       IN  ScanLists(doc, k + 1,
                     IF Len(items) > 0
                     THEN Append(found, [type |-> ToLowerCase(doc[k].tagName),
                                         items |-> items])
                     ELSE found)

extractLists(doc) == ScanLists(doc, 1, <<>>)

(***************************************************************************)
(* State.                                                                  *)
(***************************************************************************)
VARIABLES
  crawledUrls,     \* this.crawledUrls of the one shared enhancedAnalyzer
  pc,              \* per run: where the async call stands
  supportLinks,    \* per run: the argument of crawlSupportPages
  i,               \* per run: the loop index of crawlSupportPages
  batchPromises,   \* per run: the promise of every link's async callback
  crawledContent,  \* per run: the object crawledContent, keys in insertion order
  batches,         \* per run: number of batches started
  delays,          \* per run: number of inter-batch timers set
  outcome,         \* per run: what has become of every link of supportLinks
  anchors,         \* document.querySelectorAll('a[href]')
  links,           \* per run: the Set links of discoverSupportLinks, in insertion order
  sitemapIndex,    \* per run: which entry of sitemapUrls checkSitemap is fetching
  result,          \* per run: what performDeepAnalysis has resolved to
  sourceLog,       \* per run: what every discovery source was given and has produced
  sent,            \* per run: the arguments of the listener's calls of sendResponse
  call             \* the last call of a utility method: its arguments and its return value

crawlVars == <<supportLinks, i, batchPromises, crawledContent, batches, delays, outcome>>

sessionVars == <<anchors, links, sitemapIndex, result, sourceLog, sent>>

vars == <<crawledUrls, pc, crawlVars, sessionVars, call>>

\* no utility method has been called
NoCall == [method |-> "none", url |-> <<>>, text |-> <<>>, doc |-> <<>>, returned |-> <<>>]

(***************************************************************************)
(* JavaScript objects with string keys: entries in insertion order.        *)
(***************************************************************************)
ObjectKeys(obj) == [k \in 1..Len(obj) |-> obj[k].key]

\* obj[key] = value
ObjectSet(obj, key, value) ==
  IF \E k \in 1..Len(obj) : obj[k].key = key
  THEN [k \in 1..Len(obj) |->
          IF obj[k].key = key THEN [key |-> key, value |-> value] ELSE obj[k]]
  ELSE Append(obj, [key |-> key, value |-> value])

(***************************************************************************)
(* Promises of the batch callbacks.                                        *)
(***************************************************************************)
NoPromise == [state |-> "none", value |-> Null]
Pending == [state |-> "pending", value |-> Null]
Fulfilled(v) == [state |-> "fulfilled", value |-> v]
Rejected == [state |-> "rejected", value |-> Null]

(***************************************************************************)
(* crawlSupportPages                                                       *)
(***************************************************************************)
\* a batch one link too wide
maxConcurrentOffByOne == 3 + 1

maxConcurrent == 3

Min(a, b) == IF a < b THEN a ELSE b

\* positions (1-based) of supportLinks.slice(i, i + maxConcurrent)
BatchIndices(r) == (i[r] + 1)..Min(i[r] + maxConcurrent, Len(supportLinks[r]))

\* the visited check left out
HasCrawledNever(url) == FALSE

\* this.crawledUrls.has(url)
HasCrawled(url) == url \in crawledUrls

\* the object the callback returns after a successful crawlSinglePage
CrawlResult(linkInfo, content) ==
  [url |-> linkInfo.url, type |-> linkInfo.type, content |-> content,
   metadata |-> [linkText |-> linkInfo.text,
                 source |-> IF linkInfo.source = Undefined THEN "navigation"
                            ELSE linkInfo.source]]

\* loop head with i < supportLinks.length: slice the batch and map the callback
\* over it; each callback runs up to its first await
StartBatch(r) ==
  /\ pc[r] = "crawl"
  /\ i[r] < Len(supportLinks[r])
  /\ batchPromises' = [batchPromises EXCEPT ![r] =
       [j \in 1..Len(supportLinks[r]) |->
          IF j \in BatchIndices(r)
          THEN IF HasCrawled(supportLinks[r][j].url) THEN Fulfilled(Null) ELSE Pending
          ELSE @[j]]]
  /\ outcome' = [outcome EXCEPT ![r] =
       [j \in 1..Len(supportLinks[r]) |->
          IF j \in BatchIndices(r)
          THEN IF HasCrawled(supportLinks[r][j].url) THEN "skipped" ELSE "pending"
          ELSE @[j]]]
  /\ batches' = [batches EXCEPT ![r] = @ + 1]
  /\ pc' = [pc EXCEPT ![r] = "await_all"]
  /\ UNCHANGED <<crawledUrls, supportLinks, i, crawledContent, delays, sessionVars, call>>

\* the callback without its try/catch: a failed fetch rejects the promise
CallbackPromiseNoCatch(linkInfo, response) ==
  IF crawlSinglePage(response).state = "fulfilled"
  THEN Fulfilled(Some(CrawlResult(linkInfo, crawlSinglePage(response).content[1])))
  ELSE Rejected

\* the value the batch callback of linkInfo returns after crawlSinglePage has
\* settled on response: the result, or null from the catch block
CallbackPromise(linkInfo, response) ==
  IF crawlSinglePage(response).state = "fulfilled"
  THEN Fulfilled(Some(CrawlResult(linkInfo, crawlSinglePage(response).content[1])))
  ELSE Fulfilled(Null)

\* the add moved in front of the await: the URL is marked whatever the outcome
CallbackAddsAlways(linkInfo, response) == {linkInfo.url}

\* the URLs the batch callback adds to crawledUrls: the add follows the await
\* inside the try block
CallbackAdds(linkInfo, response) ==
  IF crawlSinglePage(response).state = "fulfilled" THEN {linkInfo.url} ELSE {}

\* crawlSinglePage's sendMessage callback for link j, then the rest of the
\* batch callback
FetchResponse(r, j, response) ==
  /\ j \in 1..Len(supportLinks[r])
  /\ batchPromises[r][j].state = "pending"
  /\ crawledUrls' = crawledUrls \cup CallbackAdds(supportLinks[r][j], response)
  /\ batchPromises' = [batchPromises EXCEPT ![r][j] =
                         CallbackPromise(supportLinks[r][j], response)]
  /\ outcome' = [outcome EXCEPT ![r][j] =
                   IF crawlSinglePage(response).state = "fulfilled" THEN "ok" ELSE "failed"]
  /\ UNCHANGED <<pc, supportLinks, i, crawledContent, batches, delays, sessionVars, call>>

\* Promise.race semantics: the first fulfilled promise lets the loop go on
PromiseAny(r) == \E j \in BatchIndices(r) : batchPromises[r][j].state = "fulfilled"

\* Promise.all(batchPromises) resolves: every promise of the batch is fulfilled
PromiseAll(r) == \A j \in BatchIndices(r) : batchPromises[r][j].state = "fulfilled"

\* Promise.all(batchPromises) rejects: some promise of the batch is rejected
PromiseAllRejects(r) == \E j \in BatchIndices(r) : batchPromises[r][j].state = "rejected"

\* batchResults.forEach(result => { if (result) crawledContent[result.url] = result })
RECURSIVE AddResults(_, _)
AddResults(content, batchResults) ==
  IF batchResults = <<>> THEN content
  ELSE AddResults(IF Head(batchResults) # Null
                  THEN ObjectSet(content, Head(batchResults)[1].url, Head(batchResults)[1])
                  ELSE content,
                  Tail(batchResults))

\* the values of the fulfilled promises of the batch, in batch order
RECURSIVE BatchResults(_, _, _)
BatchResults(r, from, to) ==
  IF from > to THEN <<>>
  ELSE (IF batchPromises[r][from].state = "fulfilled"
        THEN <<batchPromises[r][from].value>> ELSE <<>>)
       \o BatchResults(r, from + 1, to)

\* the delay applied after every batch
MoreBatchesAlways(r) == TRUE

\* if (i + maxConcurrent < supportLinks.length) await setTimeout(1000)
MoreBatches(r) == i[r] + maxConcurrent < Len(supportLinks[r])

\* Promise.all has settled: a rejection leaves crawlSupportPages by its
\* exception; otherwise aggregate, then wait for the timer or loop
BatchDone(r) ==
  /\ pc[r] = "await_all"
  /\ PromiseAll(r) \/ PromiseAllRejects(r)
  /\ IF PromiseAllRejects(r)
     THEN /\ pc' = [pc EXCEPT ![r] = "crawl_rejected"]
          /\ UNCHANGED <<crawledContent, batchPromises, delays, i>>
     ELSE /\ crawledContent' = [crawledContent EXCEPT ![r] =
               AddResults(@, BatchResults(r, i[r] + 1,
                                          Min(i[r] + maxConcurrent, Len(supportLinks[r]))))]
          /\ batchPromises' = [batchPromises EXCEPT ![r] =
               [j \in 1..Len(supportLinks[r]) |->
                  IF j \in BatchIndices(r) /\ @[j].state = "fulfilled"
                  THEN NoPromise ELSE @[j]]]
          /\ IF MoreBatches(r)
             THEN /\ pc' = [pc EXCEPT ![r] = "delay"]
                  /\ delays' = [delays EXCEPT ![r] = @ + 1]
                  /\ i' = i
             ELSE /\ pc' = [pc EXCEPT ![r] = "crawl"]
                  /\ delays' = delays
                  /\ i' = [i EXCEPT ![r] = @ + maxConcurrent]
  /\ UNCHANGED <<crawledUrls, supportLinks, batches, outcome, sessionVars, call>>

\* the inter-batch timer fires; i += maxConcurrent
DelayElapsed(r) ==
  /\ pc[r] = "delay"
  /\ i' = [i EXCEPT ![r] = @ + maxConcurrent]
  /\ pc' = [pc EXCEPT ![r] = "crawl"]
  /\ UNCHANGED <<crawledUrls, supportLinks, batchPromises, crawledContent,
                 batches, delays, outcome, sessionVars, call>>

\* the loop left before any batch
LoopEndsAtOnce(r) == TRUE

\* the loop condition i < supportLinks.length is false
LoopEnds(r) == i[r] >= Len(supportLinks[r])

\* loop head with i >= supportLinks.length: return crawledContent
CrawlReturn(r) ==
  /\ pc[r] = "crawl"
  /\ LoopEnds(r)
  /\ pc' = [pc EXCEPT ![r] = "crawl_returned"]
  /\ UNCHANGED <<crawledUrls, supportLinks, i, batchPromises, crawledContent,
                 batches, delays, outcome, sessionVars, call>>

(***************************************************************************)
(* processAndStructureContent                                              *)
(***************************************************************************)
\* the projection of one entry of crawledContent (the fields computed by
\* identifyContentSections, extractPolicies and extractProcedures are left out)
Processed(url, pageData) ==
  [url |-> url, type |-> pageData.type, title |-> pageData.content.title]

\* structured[type] = structured[type] || []; structured[type].push(processed)
Push(structured, type, processed) ==
  IF \E k \in 1..Len(structured) : structured[k].key = type
  THEN [k \in 1..Len(structured) |->
          IF structured[k].key = type
          THEN [key |-> type, value |-> Append(structured[k].value, processed)]
          ELSE structured[k]]
  ELSE Append(structured, [key |-> type, value |-> <<processed>>])

\* Object.entries(crawledContent).forEach(...), from entry k on
RECURSIVE StructureFrom(_, _, _)
StructureFrom(content, k, structured) ==
  IF k > Len(content) THEN structured
  ELSE StructureFrom(content, k + 1,
                     Push(structured, content[k].value.type,
                          Processed(content[k].key, content[k].value)))

processAndStructureContent(content) == StructureFrom(content, 1, <<>>)

(***************************************************************************)
(* performDeepAnalysis: what it resolves to.                               *)
(***************************************************************************)
NoResult ==
  [status |-> "none", error |-> Undefined, supportSections |-> <<>>,
   pagesAnalyzed |-> 0, contentTypes |-> <<>>]

\* performDeepAnalysis without its try/catch: the exception rejects the promise
RejectedResult(message) ==
  [status |-> "rejected", error |-> message, supportSections |-> <<>>,
   pagesAnalyzed |-> 0, contentTypes |-> <<>>]

\* return { error: error.message }
ErrorResult(message) ==
  [status |-> "error", error |-> message, supportSections |-> <<>>,
   pagesAnalyzed |-> 0, contentTypes |-> <<>>]

\* return { currentPage, supportSections, actionableInfo, crawlStats }
\* (currentPage, actionableInfo and the timestamp are left out)
AnalysisResult(structuredData) ==
  [status |-> "ok", error |-> Undefined, supportSections |-> structuredData,
   pagesAnalyzed |-> Cardinality(crawledUrls),
   contentTypes |-> ObjectKeys(structuredData)]

(***************************************************************************)
(* SpecCrawl: one call of crawlSupportPages on every list of at most       *)
(* MaxLinks candidate links, on the shared analyzer, whose crawledUrls      *)
(* holds what earlier runs have left in it.                                *)
(***************************************************************************)
\* links as discovery produces them: the same URL with two categories, and a
\* second URL
CandidateLinks ==
  {NavLink(UrlHelp, TextFaq, "nav", 0), SitemapLink(UrlHelp, 0), SitemapLink(UrlContact, 0)}

RECURSIVE SeqsUpTo(_, _)
SeqsUpTo(S, n) ==
  IF n = 0 THEN {<<>>}
  ELSE LET shorter == SeqsUpTo(S, n - 1)
       IN  shorter \cup {Append(s, x) : s \in {t \in shorter : Len(t) = n - 1}, x \in S}

CandidateUrls == {l.url : l \in CandidateLinks}

InitCrawl ==
  /\ crawledUrls \in SUBSET CandidateUrls
  /\ \E given \in SeqsUpTo(CandidateLinks, MaxLinks) :
       supportLinks = [r \in Runs |-> IF r = 1 THEN given ELSE <<>>]
  /\ pc = [r \in Runs |-> IF r = 1 THEN "crawl" ELSE "idle"]
  /\ i = [r \in Runs |-> 0]
  /\ batchPromises = [r \in Runs |-> [j \in 1..Len(supportLinks[r]) |-> NoPromise]]
  /\ crawledContent = [r \in Runs |-> <<>>]
  /\ batches = [r \in Runs |-> 0]
  /\ delays = [r \in Runs |-> 0]
  /\ outcome = [r \in Runs |-> [j \in 1..Len(supportLinks[r]) |-> "none"]]
  /\ anchors = <<>>
  /\ links = [r \in Runs |-> <<>>]
  /\ sitemapIndex = [r \in Runs |-> 0]
  /\ result = [r \in Runs |-> NoResult]
  /\ sourceLog = [r \in Runs |-> <<>>]
  /\ sent = [r \in Runs |-> <<>>]
  /\ call = NoCall

NextCrawl ==
  \E r \in Runs :
    \/ StartBatch(r)
    \/ \E j \in 1..Len(supportLinks[r]), response \in Responses :
         FetchResponse(r, j, response)
    \/ BatchDone(r)
    \/ DelayElapsed(r)
    \/ CrawlReturn(r)

SpecCrawl == InitCrawl /\ [][NextCrawl]_vars

\* the steps crawlSupportPages takes by itself: the event loop runs every
\* continuation that is ready and every timer that is due.  The callback of
\* chrome.runtime.sendMessage runs when the background script answers;
\* crawlSinglePage sets no timer of its own, so nothing obliges that step
CrawlProceeds(r) == StartBatch(r) \/ BatchDone(r) \/ DelayElapsed(r) \/ CrawlReturn(r)

SpecCrawlLive == SpecCrawl /\ \A r \in Runs : WF_vars(CrawlProceeds(r))

(***************************************************************************)
(* discoverSupportLinks                                                    *)
(***************************************************************************)
\* the a[href] elements a document may hold: a root-relative link to the help
\* page, and a link whose href the URL constructor rejects
AnchorCatalogue ==
  {[href |-> <<"/","h","e","l","p">>, textContent |-> <<" ","F","A","Q"," ">>,
    location |-> "nav"],
   [href |-> <<"f","t","p",":","/","/">>, textContent |-> <<"H","e","l","p">>,
    location |-> "footer"]}

\* getLinkLocation(link): where in the page the anchor sits
getLinkLocation(link) == link.location

\* allLinks.forEach(...) from anchor k on, found being the links pushed so far;
\* an exception of resolveUrl leaves the loop and findNavigationLinks
RECURSIVE ScanAnchors(_, _, _)
ScanAnchors(allLinks, k, found) ==
  IF k > Len(allLinks) THEN [threw |-> FALSE, links |-> found]
  ELSE LET text == Trim(ToLowerCase(allLinks[k].textContent))
           url == resolveUrl(allLinks[k].href)
       IN  IF url.threw THEN [threw |-> TRUE, links |-> found]
           ELSE ScanAnchors(allLinks, k + 1,
                  IF isSupportRelated(url.href, text)
                  THEN Append(found, NavLink(url.href, text,
                                             getLinkLocation(allLinks[k]), k))
                  ELSE found)

findNavigationLinks == ScanAnchors(anchors, 1, <<>>)

\* Set.prototype.add: objects are equal when they are the same object
SetAdd(set, obj) ==
  IF \E k \in 1..Len(set) : set[k] = obj THEN set ELSE Append(set, obj)

\* list.forEach(link => links.add(link))
RECURSIVE SetAddAll(_, _)
SetAddAll(set, list) ==
  IF list = <<>> THEN set ELSE SetAddAll(SetAdd(set, Head(list)), Tail(list))

\* what fetch(sitemapUrl) and the parse of its text may give
SitemapResponses ==
  {[threw |-> TRUE, ok |-> FALSE, locs |-> <<>>],
   [threw |-> FALSE, ok |-> FALSE, locs |-> <<>>],
   [threw |-> FALSE, ok |-> TRUE, locs |-> <<UrlHelp, UrlAbout>>]}

\* the loop of checkSitemap without the isSupportRelated test
RECURSIVE ScanLocsUnfiltered(_, _, _, _)
ScanLocsUnfiltered(locs, k, base, found) ==
  IF k > Len(locs) THEN found
  ELSE ScanLocsUnfiltered(locs, k + 1, base, Append(found, SitemapLink(locs[k], base + k)))

\* urls.forEach(...) of checkSitemap from <loc> k on; base numbers the objects
RECURSIVE ScanLocs(_, _, _, _)
ScanLocs(locs, k, base, found) ==
  IF k > Len(locs) THEN found
  ELSE ScanLocs(locs, k + 1, base,
                IF isSupportRelated(locs[k], <<>>)
                THEN Append(found, SitemapLink(locs[k], base + k))
                ELSE found)

\* the links one entry of sitemapUrls contributes
SitemapLinks(response, index) ==
  IF ~response.threw /\ response.ok THEN ScanLocs(response.locs, 1, 100 * index, <<>>)
  ELSE <<>>

\* what checkRobotsTxt may give: an exception, or its links
RobotsResults ==
  {[threw |-> TRUE, links |-> <<>>], [threw |-> FALSE, links |-> <<>>]}

\* generateCommonSupportUrls(baseUrl): origin + pattern for the patterns
\* from k on
RECURSIVE CommonFrom(_)
CommonFrom(k) ==
  IF k > Min(NumPatterns, Len(supportPatterns)) THEN <<>>
  ELSE <<[url |-> Origin \o supportPatterns[k], text |-> Null,
          type |-> categorizeLink(Origin \o supportPatterns[k], <<>>),
          location |-> Undefined, source |-> "generated", ref |-> 400 + k]>>
       \o CommonFrom(k + 1)

generateCommonSupportUrls == CommonFrom(1)

(***************************************************************************)
(* The onMessage listener and performDeepAnalysis.                         *)
(***************************************************************************)
\* one entry of sourceLog: the discovery source, whether it failed, the <loc>
\* texts it was given (sitemap only) and the links it has returned
LogEntry(source, failed, locs, found) ==
  [source |-> source, failed |-> failed, locs |-> locs, links |-> found]

\* a 'performDeepAnalysis' message arrives: the listener calls
\* enhancedAnalyzer.performDeepAnalysis(), which runs up to its first await
ReceiveMessage(r) ==
  /\ pc[r] = "idle"
  /\ pc' = [pc EXCEPT ![r] = "analyze"]
  /\ UNCHANGED <<crawledUrls, crawlVars, sessionVars, call>>

\* analyzeCurrentPage has settled.  On success discoverSupportLinks scans the
\* navigation and checkSitemap issues its first fetch; an exception on the
\* way ends performDeepAnalysis in its catch block
AnalyzeCurrentPageDone(r, ok) ==
  /\ pc[r] = "analyze"
  /\ IF ~ok
     THEN /\ result' = [result EXCEPT ![r] = ErrorResult("no page context")]
          /\ pc' = [pc EXCEPT ![r] = "done"]
          /\ UNCHANGED <<links, sitemapIndex, sourceLog>>
     ELSE IF findNavigationLinks.threw
     THEN /\ result' = [result EXCEPT ![r] = ErrorResult("Invalid URL")]
          /\ pc' = [pc EXCEPT ![r] = "done"]
          /\ sourceLog' = [sourceLog EXCEPT ![r] =
               Append(@, LogEntry("navigation", TRUE, <<>>, <<>>))]
          /\ UNCHANGED <<links, sitemapIndex>>
     ELSE /\ links' = [links EXCEPT ![r] = SetAddAll(<<>>, findNavigationLinks.links)]
          /\ sitemapIndex' = [sitemapIndex EXCEPT ![r] = 1]
          /\ pc' = [pc EXCEPT ![r] = "sitemap"]
          /\ sourceLog' = [sourceLog EXCEPT ![r] =
               Append(@, LogEntry("navigation", FALSE, <<>>, findNavigationLinks.links))]
          /\ UNCHANGED result
  /\ UNCHANGED <<crawledUrls, crawlVars, anchors, sent, call>>

\* checkSitemap without the try/catch in its loop: an exception of fetch
\* leaves the loop
MoreSitemapsNoCatch(response, index) == index = 1 /\ ~response.threw

\* for (const sitemapUrl of sitemapUrls) with the try/catch inside the loop:
\* after entry 1 of sitemapUrls comes entry 2, whatever the fetch has done
MoreSitemaps(response, index) == index = 1

\* one fetch of checkSitemap has settled and its text is parsed; the links go
\* to the Set in the order checkSitemap returns them.  After the second one
\* checkRobotsTxt is called
SitemapResponse(r, response) ==
  /\ pc[r] = "sitemap"
  /\ links' = [links EXCEPT ![r] = SetAddAll(@, SitemapLinks(response, sitemapIndex[r]))]
  /\ IF MoreSitemaps(response, sitemapIndex[r])
     THEN /\ sitemapIndex' = [sitemapIndex EXCEPT ![r] = 2]
          /\ pc' = pc
     ELSE /\ sitemapIndex' = [sitemapIndex EXCEPT ![r] = 0]
          /\ pc' = [pc EXCEPT ![r] = "robots"]
  /\ sourceLog' = [sourceLog EXCEPT ![r] =
       Append(@, LogEntry("sitemap", response.threw \/ ~response.ok, response.locs,
                          SitemapLinks(response, sitemapIndex[r])))]
  /\ UNCHANGED <<crawledUrls, crawlVars, anchors, result, sent, call>>

\* checkRobotsTxt has settled; the common URLs are added, discoverSupportLinks
\* returns Array.from(links) and crawlSupportPages is entered
RobotsDone(r, robots) ==
  /\ pc[r] = "robots"
  /\ LET all == SetAddAll(SetAddAll(links[r], robots.links), generateCommonSupportUrls)
     IN  /\ supportLinks' = [supportLinks EXCEPT ![r] = all]
         /\ batchPromises' = [batchPromises EXCEPT ![r] = [j \in 1..Len(all) |-> NoPromise]]
         /\ outcome' = [outcome EXCEPT ![r] = [j \in 1..Len(all) |-> "none"]]
  /\ links' = [links EXCEPT ![r] = <<>>]
  /\ pc' = [pc EXCEPT ![r] = "crawl"]
  /\ sourceLog' = [sourceLog EXCEPT ![r] =
       Append(Append(@, LogEntry("robots", robots.threw, <<>>, robots.links)),
              LogEntry("generated", FALSE, <<>>, generateCommonSupportUrls))]
  /\ UNCHANGED <<crawledUrls, i, crawledContent, batches, delays, anchors,
                 sitemapIndex, result, sent, call>>

\* crawlSupportPages has settled: phases 4 and 5 and the return, or the catch
\* block
Finish(r) ==
  /\ pc[r] \in {"crawl_returned", "crawl_rejected"}
  /\ result' = [result EXCEPT ![r] =
       IF pc[r] = "crawl_rejected" THEN ErrorResult("Failed to fetch content")
       ELSE AnalysisResult(processAndStructureContent(crawledContent[r]))]
  /\ pc' = [pc EXCEPT ![r] = "done"]
  /\ UNCHANGED <<crawledUrls, crawlVars, anchors, links, sitemapIndex, sourceLog, sent,
                 call>>

\* a listener whose response tells by success whether the analysis failed
ListenerResponseByError(settled) ==
  IF settled.status = "ok"
  THEN [success |-> TRUE, data |-> settled, error |-> Undefined]
  ELSE [success |-> FALSE, data |-> NoResult, error |-> settled.error]

\* the argument of sendResponse: the then handler runs when
\* performDeepAnalysis has resolved, the catch handler when it has rejected
ListenerResponse(settled) ==
  IF settled.status = "rejected"
  THEN [success |-> FALSE, data |-> NoResult, error |-> settled.error]
  ELSE [success |-> TRUE, data |-> settled, error |-> Undefined]

\* performDeepAnalysis has settled and the handler the listener attached to
\* its promise runs; a handler of a promise runs once
ListenerSettled(r) ==
  /\ pc[r] = "done"
  /\ sent[r] = <<>>
  /\ sent' = [sent EXCEPT ![r] = Append(@, ListenerResponse(result[r]))]
  /\ UNCHANGED <<crawledUrls, pc, crawlVars, anchors, links, sitemapIndex, result,
                 sourceLog, call>>

(***************************************************************************)
(* Spec: the listener handles NumRuns messages on the one analyzer, at any *)
(* times, on a document with at most MaxAnchors anchors.                   *)
(***************************************************************************)
Init ==
  /\ crawledUrls = {}
  /\ anchors \in SeqsUpTo(AnchorCatalogue, MaxAnchors)
  /\ pc = [r \in Runs |-> "idle"]
  /\ supportLinks = [r \in Runs |-> <<>>]
  /\ i = [r \in Runs |-> 0]
  /\ batchPromises = [r \in Runs |-> <<>>]
  /\ crawledContent = [r \in Runs |-> <<>>]
  /\ batches = [r \in Runs |-> 0]
  /\ delays = [r \in Runs |-> 0]
  /\ outcome = [r \in Runs |-> <<>>]
  /\ links = [r \in Runs |-> <<>>]
  /\ sitemapIndex = [r \in Runs |-> 0]
  /\ result = [r \in Runs |-> NoResult]
  /\ sourceLog = [r \in Runs |-> <<>>]
  /\ sent = [r \in Runs |-> <<>>]
  /\ call = NoCall

Next ==
  \E r \in Runs :
    \/ ReceiveMessage(r)
    \/ \E ok \in BOOLEAN : AnalyzeCurrentPageDone(r, ok)
    \/ \E response \in SitemapResponses : SitemapResponse(r, response)
    \/ \E robots \in RobotsResults : RobotsDone(r, robots)
    \/ StartBatch(r)
    \/ \E j \in 1..Len(supportLinks[r]), response \in Responses :
         FetchResponse(r, j, response)
    \/ BatchDone(r)
    \/ DelayElapsed(r)
    \/ CrawlReturn(r)
    \/ Finish(r)
    \/ ListenerSettled(r)

Spec == Init /\ [][Next]_vars

(***************************************************************************)
(* SpecSession: one performDeepAnalysis message, on a wider choice of      *)
(* documents, sitemaps and robots.txt answers than Spec affords with       *)
(* overlapping runs.                                                       *)
(***************************************************************************)
UrlRefundPolicy ==
  <<"h","t","t","p","s",":","/","/","e","x","a","m","p","l","e",".","c","o","m",
    "/","r","e","f","u","n","d","-","p","o","l","i","c","y">>

UrlSupport == Origin \o <<"/","s","u","p","p","o","r","t">>

\* besides the anchors of AnchorCatalogue: a relative link to a page that is
\* support related without belonging to a category, and a link that is not
\* support related
SessionAnchors ==
  AnchorCatalogue \cup
    {[href |-> <<"d","o","c","s">>, textContent |-> <<"D","o","c","s">>,
      location |-> "header"],
     [href |-> <<"/","a","b","o","u","t">>, textContent |-> <<"A","b","o","u","t">>,
      location |-> "body"]}

\* besides SitemapResponses: a sitemap whose only <loc> is the refund policy
SessionSitemapResponses ==
  SitemapResponses \cup {[threw |-> FALSE, ok |-> TRUE, locs |-> <<UrlRefundPolicy>>]}

\* besides RobotsResults: a robots.txt with a path that matches a support keyword
SessionRobotsResults ==
  RobotsResults \cup
    {[threw |-> FALSE,
      links |-> <<[url |-> UrlSupport, text |-> Null,
                   type |-> categorizeLink(UrlSupport, <<>>),
                   location |-> Undefined, source |-> "robots", ref |-> 300]>>]}

InitSession ==
  /\ crawledUrls = {}
  /\ anchors \in SeqsUpTo(SessionAnchors, MaxAnchors)
  /\ pc = [r \in Runs |-> "idle"]
  /\ supportLinks = [r \in Runs |-> <<>>]
  /\ i = [r \in Runs |-> 0]
  /\ batchPromises = [r \in Runs |-> <<>>]
  /\ crawledContent = [r \in Runs |-> <<>>]
  /\ batches = [r \in Runs |-> 0]
  /\ delays = [r \in Runs |-> 0]
  /\ outcome = [r \in Runs |-> <<>>]
  /\ links = [r \in Runs |-> <<>>]
  /\ sitemapIndex = [r \in Runs |-> 0]
  /\ result = [r \in Runs |-> NoResult]
  /\ sourceLog = [r \in Runs |-> <<>>]
  /\ sent = [r \in Runs |-> <<>>]
  /\ call = NoCall

NextSession ==
  \/ ReceiveMessage(1)
  \/ \E ok \in BOOLEAN : AnalyzeCurrentPageDone(1, ok)
  \/ \E response \in SessionSitemapResponses : SitemapResponse(1, response)
  \/ \E robots \in SessionRobotsResults : RobotsDone(1, robots)
  \/ StartBatch(1)
  \/ \E j \in 1..Len(supportLinks[1]), response \in Responses :
       FetchResponse(1, j, response)
  \/ BatchDone(1)
  \/ DelayElapsed(1)
  \/ CrawlReturn(1)
  \/ Finish(1)
  \/ ListenerSettled(1)

SpecSession == InitSession /\ [][NextSession]_vars

(***************************************************************************)
(* SpecUtility: one utility method of the analyzer is called on arguments  *)
(* drawn from bounded sets, and returns.                                    *)
(***************************************************************************)
\* words of URL paths and anchor texts: keywords of several categories in
\* both cases, the halves of a keyword with a space, and a word that is none
Words ==
  { <<"F","A","Q">>, <<"P","o","l","i","c","y">>, <<"r","e","f","u","n","d">>,
    <<"m","o","n","e","y">>, <<"b","a","c","k">>, <<"x">> }

RECURSIVE JoinWith(_, _)
JoinWith(sep, words) ==
  IF words = <<>> THEN <<>>
  ELSE IF Len(words) = 1 THEN words[1]
  ELSE words[1] \o sep \o JoinWith(sep, Tail(words))

\* URLs of the site whose path is made of at most MaxWords words
WordUrls == {Origin \o <<"/">> \o JoinWith(<<"-">>, w) : w \in SeqsUpTo(Words, MaxWords)}

\* anchor texts of at most MaxWords words
WordTexts == {JoinWith(<<" ">>, w) : w \in SeqsUpTo(Words, MaxWords)}

\* a call of method with its arguments, which has not returned yet
Call(method, url, text, doc) ==
  [method |-> method, url |-> url, text |-> text, doc |-> doc, returned |-> <<>>]

\* categorizeLink(url, text) is called
CategorizeCalled ==
  \E url \in WordUrls, text \in WordTexts : call = Call("categorizeLink", url, text, <<>>)

\* how a href may begin: nothing, a slash, two slashes, an http(s) origin, a
\* file name that begins with the letters http, another scheme, a scheme
\* written in capitals, and a scheme with no host
HrefPrefixes ==
  { <<>>, <<"/">>, <<"/","/">>,
    <<"h","t","t","p",":","/","/","b",".","i","o","/">>,
    <<"h","t","t","p","s",":","/","/","b",".","i","o","/">>,
    <<"h","t","t","p","-">>,
    <<"m","a","i","l","t","o",":">>,
    <<"F","T","P",":","/","/","B",".","i","o","/">>,
    <<"f","t","p",":","/","/">> }

\* the href attributes given to resolveUrl: a prefix and at most MaxWords words
Hrefs == {p \o JoinWith(<<"/">>, w) : p \in HrefPrefixes, w \in SeqsUpTo(Words, MaxWords)}

\* resolveUrl(href) is called
ResolveCalled == \E href \in Hrefs : call = Call("resolveUrl", href, <<>>, <<>>)

\* the textContent of an li element: white space only, or a word in white space
ItemTexts == { <<" ">>, <<" ","a"," ">> }

\* ul and ol elements with at most MaxItems li elements
ListElements ==
  {[tagName |-> t, items |-> it] :
     t \in { <<"U","L">>, <<"O","L">> }, it \in SeqsUpTo(ItemTexts, MaxItems)}

\* documents with at most MaxItems lists
ListDocuments == SeqsUpTo(ListElements, MaxItems)

\* what the background script may answer, success and error in every
\* combination, with and without html; the callback may also be called
\* without a response
ProxyResponses ==
  {[present |-> TRUE, success |-> ok, html |-> html, error |-> error] :
     ok \in BOOLEAN, html \in {Null} \cup {Some(d) : d \in Documents},
     error \in {Undefined, "", "HTTP 404", "timeout"}}
    \cup {[present |-> FALSE, success |-> FALSE, html |-> Null, error |-> Undefined]}

\* crawlSinglePage(url) is called and has sent its fetchPageContent message;
\* response is what the callback of sendMessage will be given
CrawlSinglePageCalled ==
  \E url \in CandidateUrls, response \in ProxyResponses :
    call = Call("crawlSinglePage", url, <<>>, <<response>>)

\* the callback of sendMessage is called, once, with the response
CrawlSinglePageSettles ==
  /\ call.method = "crawlSinglePage"
  /\ call.returned = <<>>
  /\ call' = [call EXCEPT !.returned = Append(@, crawlSinglePage(call.doc[1]))]
  /\ UNCHANGED <<crawledUrls, pc, crawlVars, sessionVars>>

\* extractLists(doc) is called
ExtractCalled == \E doc \in ListDocuments : call = Call("extractLists", <<>>, <<>>, doc)

\* extractLists(doc) returns
ExtractListsReturns ==
  /\ call.method = "extractLists"
  /\ call.returned = <<>>
  /\ call' = [call EXCEPT !.returned = <<extractLists(call.doc)>>]
  /\ UNCHANGED <<crawledUrls, pc, crawlVars, sessionVars>>

\* resolveUrl(href) returns or throws
ResolveUrlReturns ==
  /\ call.method = "resolveUrl"
  /\ call.returned = <<>>
  /\ call' = [call EXCEPT !.returned = <<resolveUrl(call.url)>>]
  /\ UNCHANGED <<crawledUrls, pc, crawlVars, sessionVars>>

\* categorizeLink(url, text) returns; the same call may be made once more
CategorizeLinkReturns ==
  /\ call.method = "categorizeLink"
  /\ Len(call.returned) < 2
  /\ call' = [call EXCEPT !.returned = Append(@, categorizeLink(call.url, call.text))]
  /\ UNCHANGED <<crawledUrls, pc, crawlVars, sessionVars>>

InitUtility ==
  /\ crawledUrls = {}
  /\ anchors = <<>>
  /\ pc = [r \in Runs |-> "idle"]
  /\ supportLinks = [r \in Runs |-> <<>>]
  /\ i = [r \in Runs |-> 0]
  /\ batchPromises = [r \in Runs |-> <<>>]
  /\ crawledContent = [r \in Runs |-> <<>>]
  /\ batches = [r \in Runs |-> 0]
  /\ delays = [r \in Runs |-> 0]
  /\ outcome = [r \in Runs |-> <<>>]
  /\ links = [r \in Runs |-> <<>>]
  /\ sitemapIndex = [r \in Runs |-> 0]
  /\ result = [r \in Runs |-> NoResult]
  /\ sourceLog = [r \in Runs |-> <<>>]
  /\ sent = [r \in Runs |-> <<>>]
  /\ CategorizeCalled \/ ResolveCalled \/ ExtractCalled \/ CrawlSinglePageCalled

NextUtility ==
  \/ CategorizeLinkReturns
  \/ ResolveUrlReturns
  \/ ExtractListsReturns
  \/ CrawlSinglePageSettles

SpecUtility == InitUtility /\ [][NextUtility]_vars

(***************************************************************************)
\* page fetches of run r issued and not yet settled
InFlight(r) == {j \in 1..Len(supportLinks[r]) : batchPromises[r][j].state = "pending"}

\* the keys of crawledContent, as a set
ContentKeys(r) == Range(ObjectKeys(crawledContent[r]))

\* the links of the batches whose results have been aggregated
Aggregated(r) ==
  1..Min(Len(supportLinks[r]), IF pc[r] = "delay" THEN i[r] + 3 ELSE i[r])

\* the batch (0, 1, ...) of the link at position j
BatchOf(j) == (j - 1) \div 3

Ceil3(n) == (n + 2) \div 3

\* C1: during one run of crawlSupportPages, the page fetches issued and not
\* yet settled never number more than 3
C1_AtMostThreeInFlight == \A r \in Runs : Cardinality(InFlight(r)) <= 3

\* three fetches of one batch in flight together
C1_Witness == \E r \in Runs : Cardinality(InFlight(r)) = 3

\* the callback of link j of run r starts in this step
Mapped(r, j) == pc[r] = "crawl" /\ pc'[r] = "await_all" /\ j \in BatchIndices(r)

\* a fetch for link j of run r is issued in this step
Issued(r, j) == batchPromises[r][j].state # "pending" /\ batchPromises'[r][j].state = "pending"

\* C2: a fetch is only ever issued for a URL that is not in crawledUrls, a URL
\* once in crawledUrls stays there, and a link whose URL is in crawledUrls
\* when its batch starts gets a null result without a fetch
C2_NoFetchOfVisitedUrl ==
  [][/\ crawledUrls \subseteq crawledUrls'
     /\ \A r \in Runs : \A j \in 1..Len(supportLinks[r]) :
          /\ Issued(r, j) => supportLinks[r][j].url \notin crawledUrls
          /\ (Mapped(r, j) /\ supportLinks[r][j].url \in crawledUrls)
               => batchPromises'[r][j] = Fulfilled(Null)]_vars

\* a link of a later batch is skipped because an earlier batch of the same run
\* crawled its URL
C2_Witness ==
  \E r \in Runs : \E j \in 1..Len(supportLinks[r]) :
    /\ outcome[r][j] = "skipped"
    /\ batchPromises[r][j] = Fulfilled(Null)
    /\ \E k \in 1..i[r] : outcome[r][k] = "ok" /\ supportLinks[r][k].url = supportLinks[r][j].url

\* the fetch of link j of run r fails in this step
FetchFails(r, j) ==
  batchPromises[r][j].state = "pending" /\ batchPromises'[r][j] = Fulfilled(Null)

C4_FailureIsolated ==
  \A r \in Runs :
    /\ pc[r] # "crawl_rejected"
    /\ ContentKeys(r) =
         {supportLinks[r][j].url : j \in {k \in Aggregated(r) : outcome[r][k] = "ok"}}

\* a batch with a failed link and a crawled one has been aggregated
C4_Witness ==
  \E r \in Runs : \E j, k \in Aggregated(r) :
    /\ BatchOf(j) = BatchOf(k)
    /\ outcome[r][j] = "failed"
    /\ outcome[r][k] = "ok"
    /\ supportLinks[r][k].url \in ContentKeys(r)
    /\ supportLinks[r][j].url \notin ContentKeys(r)

\* the link whose result crawledContent holds for url: the last aggregated
\* link with that URL whose fetch succeeded
ProducerIndex(r, url) ==
  LET from == {j \in Aggregated(r) : outcome[r][j] = "ok" /\ supportLinks[r][j].url = url}
  IN  CHOOSE j \in from : \A k \in from : k <= j

\* every entry of crawledContent is the result of its producer link
StoredFromProducer ==
  \A r \in Runs : \A k \in 1..Len(crawledContent[r]) :
    LET l == supportLinks[r][ProducerIndex(r, crawledContent[r][k].key)]
    IN  crawledContent[r][k].value = CrawlResult(l, crawledContent[r][k].value.content)

\* the value crawledContent holds under url
Stored(r, url) ==
  crawledContent[r][CHOOSE k \in 1..Len(crawledContent[r]) : crawledContent[r][k].key = url].value

\* the positions of the links that the page stored under url can come from:
\* the crawled links whose result is the stored one
Origins(r, url) ==
  {j \in Aggregated(r) :
     /\ outcome[r][j] = "ok"
     /\ CrawlResult(supportLinks[r][j], Stored(r, url).content) = Stored(r, url)}

\* C6 as stated: in every category list of the structured output, a page
\* that comes before another one comes from a link discovered before a link
\* of the other one
C6_OrderFollowsDiscovery ==
  \A r \in Runs :
    pc[r] = "crawl_returned" =>
      LET structured == processAndStructureContent(crawledContent[r])
      IN  \A c \in 1..Len(structured) : \A a, b \in 1..Len(structured[c].value) :
            a < b => \E ja \in Origins(r, structured[c].value[a].url) :
                       \E jb \in Origins(r, structured[c].value[b].url) : ja < jb

\* C7: batches and delays alternate, starting with a batch and ending with
\* one: n links take ceil(n/3) batches and max(0, ceil(n/3) - 1) delays
C7_BatchesAndDelays ==
  \A r \in Runs :
    LET n == Len(supportLinks[r]) IN
    /\ batches[r] <= Ceil3(n)
    /\ delays[r] <= batches[r]
    /\ batches[r] > 0 => delays[r] >= batches[r] - 1
    /\ pc[r] = "delay" => delays[r] = batches[r]
    /\ delays[r] = batches[r] /\ batches[r] > 0 => batches[r] < Ceil3(n)
    /\ pc[r] = "await_all" => delays[r] = batches[r] - 1
    /\ pc[r] = "crawl_returned" =>
         /\ batches[r] = Ceil3(n)
         /\ delays[r] = IF Ceil3(n) = 0 THEN 0 ELSE Ceil3(n) - 1

\* five links have been crawled in two batches with one delay
C7_Witness ==
  \E r \in Runs :
    /\ pc[r] = "crawl_returned"
    /\ Len(supportLinks[r]) = 5
    /\ batches[r] = 2
    /\ delays[r] = 1

\* C8: while a link's callback has started and is not aggregated, every link
\* of the earlier batches has settled and the crawled ones are in crawledContent
C8_BatchBarrier ==
  \A r \in Runs : \A j \in 1..Len(supportLinks[r]) :
    batchPromises[r][j].state # "none" =>
      \A k \in 1..Len(supportLinks[r]) :
        /\ BatchOf(k) < BatchOf(j) =>
             /\ batchPromises[r][k].state = "none"
             /\ outcome[r][k] \in {"ok", "failed", "skipped"}
             /\ outcome[r][k] = "ok" => supportLinks[r][k].url \in ContentKeys(r)
        /\ BatchOf(k) > BatchOf(j) => outcome[r][k] = "none"

\* a fetch of the second batch is in flight after a first batch with a crawled page
C8_Witness ==
  \E r \in Runs : \E j \in InFlight(r) : \E k \in 1..Len(supportLinks[r]) :
    /\ BatchOf(j) = 1
    /\ BatchOf(k) = 0
    /\ outcome[r][k] = "ok"

(***************************************************************************)
(* Properties of discovery and of the sessions of the shared analyzer.     *)
(***************************************************************************)
\* C5 as stated: the sequence discoverSupportLinks returns never holds a
\* navigation link and a sitemap link with the same URL
C5_OneLinkPerUrl ==
  \A r \in Runs : \A a, b \in 1..Len(supportLinks[r]) :
    (/\ supportLinks[r][a].location # Undefined
     /\ supportLinks[r][b].source = "sitemap")
      => supportLinks[r][a].url # supportLinks[r][b].url

\* the URLs run r has crawled itself
CrawledBy(r) ==
  {supportLinks[r][j].url : j \in {k \in 1..Len(supportLinks[r]) : outcome[r][k] = "ok"}}

\* C9 as stated: a run skips a link only for a URL it has crawled itself, and
\* the pagesAnalyzed it reports counts only the URLs it has crawled itself
C9_RunsShareNoState ==
  \A r \in Runs :
    /\ \A j \in 1..Len(supportLinks[r]) :
         outcome[r][j] = "skipped" => supportLinks[r][j].url \in CrawledBy(r)
    /\ result[r].status = "ok" => result[r].pagesAnalyzed = Cardinality(CrawledBy(r))

\* C10 as stated: no session ends in the error outcome because an href of
\* the document cannot be resolved
C10_MalformedHrefNonFatal ==
  \A r \in Runs : result[r].status = "error" => result[r].error # "Invalid URL"

\* discoverSupportLinks of run r has returned
Discovered(r) ==
  \/ pc[r] \in {"crawl", "await_all", "delay", "crawl_returned", "crawl_rejected"}
  \/ pc[r] = "done" /\ result[r].status = "ok"

\* the sources of the entries of sourceLog, in order
LoggedSources(r) == [k \in 1..Len(sourceLog[r]) |-> sourceLog[r][k].source]

\* C11: a failure of a sitemap fetch or of checkRobotsTxt never ends the
\* session in the error outcome; discoverSupportLinks consults both sitemap
\* URLs, robots.txt and the common paths whatever has failed before; and
\* what it collects and returns holds every link of every source that did
\* not fail
C11_SourceFailureNonFatal ==
  \A r \in Runs :
    /\ result[r].status = "error" =>
         \A k \in 1..Len(sourceLog[r]) : sourceLog[r][k].source = "navigation"
    /\ pc[r] = "robots" => LoggedSources(r) = <<"navigation", "sitemap", "sitemap">>
    /\ Discovered(r) =>
         /\ LoggedSources(r) = <<"navigation", "sitemap", "sitemap", "robots", "generated">>
         /\ \A k \in 1..Len(sourceLog[r]) :
              ~sourceLog[r][k].failed =>
                Range(sourceLog[r][k].links) \subseteq Range(supportLinks[r])
    /\ pc[r] \in {"sitemap", "robots"} =>
         \A k \in 1..Len(sourceLog[r]) :
           ~sourceLog[r][k].failed => Range(sourceLog[r][k].links) \subseteq Range(links[r])

\* the first sitemap fetch and robots.txt have failed, and discovery has
\* returned the links of the navigation and of the second sitemap
C11_Witness ==
  \E r \in Runs :
    /\ Discovered(r)
    /\ sourceLog[r][1].links # <<>>
    /\ sourceLog[r][2].failed
    /\ ~sourceLog[r][3].failed /\ sourceLog[r][3].links # <<>>
    /\ sourceLog[r][4].failed
    /\ \E a, b \in 1..Len(supportLinks[r]) :
         /\ supportLinks[r][a] \in Range(sourceLog[r][1].links)
         /\ supportLinks[r][b] \in Range(sourceLog[r][3].links)

\* C12: performDeepAnalysis settles only by resolving, to the analysis result
\* with its supportSections and crawlStats or to an object with an error
\* string, and it has settled exactly when the run is over
C12_ResolvesToResultOrError ==
  \A r \in Runs :
    /\ result[r].status \in {"none", "ok", "error"}
    /\ result[r].status # "none" <=> pc[r] = "done"
    /\ result[r].status = "error" => result[r].error # Undefined
    /\ result[r].status = "ok" =>
         /\ result[r].error = Undefined
         /\ result[r].contentTypes = ObjectKeys(result[r].supportSections)
         /\ result[r].pagesAnalyzed \in Nat

\* an exception raised during discovery has become the error result
C12_Witness ==
  \E r \in Runs :
    /\ pc[r] = "done"
    /\ sourceLog[r] # <<>>
    /\ result[r].status = "error"

\* the fetch of link j of the crawl is issued and not settled
FetchPending(j) == j <= Len(supportLinks[1]) /\ batchPromises[1][j].state = "pending"

\* C13 as stated: every fetch issued by crawlSinglePage settles, and
\* crawlSupportPages returns
C13_FetchSettlesAndCrawlReturns ==
  /\ \A j \in 1..MaxLinks : FetchPending(j) ~> ~FetchPending(j)
  /\ <>(pc[1] = "crawl_returned")

\* the phase of the session of run r
Phase(r) ==
  CASE pc[r] = "idle" -> "Idle"
    [] pc[r] \in {"analyze", "sitemap", "robots"} -> "Discovering"
    [] pc[r] \in {"crawl", "await_all", "delay", "crawl_returned", "crawl_rejected"}
         -> "Crawling"
    [] pc[r] = "done" /\ result[r].status = "ok" -> "Done"
    [] OTHER -> "Failed"

\* the phases a session can be in one step after phase p; phases 4 and 5 and
\* the return are one step, so Aggregating lies inside the step from
\* Crawling to Done
PhasesAfter(p) ==
  CASE p = "Idle" -> {"Idle", "Discovering", "Failed"}
    [] p = "Discovering" -> {"Discovering", "Crawling", "Failed"}
    [] p = "Crawling" -> {"Crawling", "Done", "Failed"}
    [] OTHER -> {p}

\* every link of run r has settled and its batch has been aggregated
AllSettled(r) ==
  /\ i[r] >= Len(supportLinks[r])
  /\ \A j \in 1..Len(supportLinks[r]) :
       /\ outcome[r][j] \in {"ok", "failed", "skipped"}
       /\ batchPromises[r][j].state = "none"

\* what every step of a session respects
PhaseStep(r) ==
  /\ Phase(r)' \in PhasesAfter(Phase(r))
  /\ Phase(r) # "Discovering" => supportLinks'[r] = supportLinks[r]
  /\ (Phase(r) = "Discovering" /\ Phase(r)' = "Crawling") =>
       LoggedSources(r)' = <<"navigation", "sitemap", "sitemap", "robots", "generated">>
  /\ \A j \in 1..Len(supportLinks[r]) : Issued(r, j) => Phase(r) = "Crawling"
  /\ (Phase(r) = "Crawling" /\ Phase(r)' = "Done") => AllSettled(r)

\* C14: a session goes through Idle, Discovering, Crawling, (Aggregating,)
\* Done in this order, or ends in Failed, and never goes back; no page is
\* fetched outside Crawling, which starts with the complete list of links of
\* all four sources; and the result is built only when every link of the
\* last batch has settled
C14_PhaseOrder ==
  /\ [](\A r \in Runs :
         /\ Phase(r) \in {"Idle", "Discovering"} => supportLinks[r] = <<>>
         /\ Phase(r) # "Crawling" => InFlight(r) = {}
         /\ Phase(r) = "Done" => AllSettled(r))
  /\ [][\A r \in Runs : PhaseStep(r)]_vars

\* a session is Done after a crawl of two batches
C14_Witness ==
  \E r \in Runs :
    /\ Phase(r) = "Done"
    /\ batches[r] = 2
    /\ Len(result[r].supportSections) >= 2

\* a sitemap fetched by run r has answered with the <loc> of the refund policy
GivenRefundPolicy(r) ==
  \E k \in 1..Len(sourceLog[r]) :
    /\ sourceLog[r][k].source = "sitemap"
    /\ ~sourceLog[r][k].failed
    /\ UrlRefundPolicy \in Range(sourceLog[r][k].locs)

\* the links discovery has returned for the refund policy URL
RefundPolicyLinks(r) ==
  {l \in Range(supportLinks[r]) : l.url = UrlRefundPolicy}

\* C16 as stated: given a sitemap with <loc>https://example.com/refund-policy</loc>,
\* discovery returns a link for that URL with category refund and source sitemap
C16_RefundPolicyIsRefund ==
  \A r \in Runs :
    (Discovered(r) /\ GivenRefundPolicy(r)) =>
      \E l \in RefundPolicyLinks(r) : l.type = "refund" /\ l.source = "sitemap"

\* C16 amended: given that sitemap, discovery returns a link for that URL
\* with source sitemap, and its category is policy, the first category in
\* declaration order with a keyword in the URL
C16_RefundPolicyIsPolicy ==
  \A r \in Runs :
    (Discovered(r) /\ GivenRefundPolicy(r)) =>
      /\ \E l \in RefundPolicyLinks(r) : l.type = "policy" /\ l.source = "sitemap"
      /\ \A l \in RefundPolicyLinks(r) : l.type = "policy"

\* discovery has returned after a sitemap with the refund policy <loc>
C16_Witness ==
  \E r \in Runs :
    /\ Discovered(r)
    /\ GivenRefundPolicy(r)
    /\ RefundPolicyLinks(r) # {}

\* the anchor text of a link, '' for a link without one
TextOf(l) == IF l.text = Null THEN <<>> ELSE l.text[1]

\* discoverSupportLinks of run r has returned and no batch has started
JustDiscovered(r) == pc[r] = "crawl" /\ batches[r] = 0

\* the links of run r that come from the navigation scan or from the sitemap
\* scan: those collected so far while discovery runs, and those returned when
\* it has just returned (the list is not touched afterwards)
ScannedLinks(r) ==
  {l \in Range(links[r]) \cup (IF JustDiscovered(r) THEN Range(supportLinks[r]) ELSE {}) :
     l.source = "sitemap" \/ l.location # Undefined}

\* C17: every link that the navigation scan or the sitemap scan contributes
\* to discovery satisfies isSupportRelated on its own url and anchor text
C17_ScannedLinksAreSupportRelated ==
  \A r \in Runs : \A l \in ScannedLinks(r) : isSupportRelated(l.url, TextOf(l))

\* discovery has returned a navigation link and a sitemap link, and has
\* dropped an anchor and a <loc> that are not support related
C17_Witness ==
  \E r \in Runs :
    /\ JustDiscovered(r)
    /\ \E l \in ScannedLinks(r) : l.source = "sitemap"
    /\ \E l \in ScannedLinks(r) : l.location # Undefined
    /\ \E k \in 1..Len(anchors) :
         /\ ~isSupportRelated(resolveUrl(anchors[k].href).href,
                              Trim(ToLowerCase(anchors[k].textContent)))
         /\ \A l \in Range(supportLinks[r]) : l.url # resolveUrl(anchors[k].href).href
    /\ \E k \in 1..Len(sourceLog[r]) :
         /\ UrlAbout \in Range(sourceLog[r][k].locs)
         /\ \A l \in Range(supportLinks[r]) : l.url # UrlAbout

(***************************************************************************)
\* the six categories of contentTypes and the default
Categories == {"faq", "policy", "contact", "billing", "cancellation", "refund", "general"}

\* C18: the type of every link, of every crawled page and of every processed
\* page is one of the seven categories, and so is every key of
\* supportSections, each page being listed under its own type
C18_TypeIsACategory ==
  \A r \in Runs :
    /\ \A j \in 1..Len(supportLinks[r]) : supportLinks[r][j].type \in Categories
    /\ \A k \in 1..Len(crawledContent[r]) : crawledContent[r][k].value.type \in Categories
    /\ \A c \in 1..Len(result[r].supportSections) :
         /\ result[r].supportSections[c].key \in Categories
         /\ \A n \in 1..Len(result[r].supportSections[c].value) :
              result[r].supportSections[c].value[n].type = result[r].supportSections[c].key

\* a session has structured a page of the default category together with
\* pages whose links came from robots.txt and from the common paths
C18_Witness ==
  \E r \in Runs :
    /\ result[r].status = "ok"
    /\ \E c \in 1..Len(result[r].supportSections) :
         result[r].supportSections[c].key = "general"
    /\ \E k \in 1..Len(crawledContent[r]) :
         crawledContent[r][k].value.metadata.source = "robots"
    /\ \E k \in 1..Len(crawledContent[r]) :
         crawledContent[r][k].value.metadata.source = "generated"

(***************************************************************************)
(* Properties of the utility methods.                                      *)
(***************************************************************************)
\* the lower-case form of one character
Lower(c) == IF c \in DOMAIN UpperToLower THEN UpperToLower[c] ELSE c

\* k occurs in s as a substring when case is ignored
OccursIgnoringCase(k, s) ==
  \E j \in 0..(Len(s) - Len(k)) : \A m \in 1..Len(k) : Lower(s[j + m]) = Lower(k[m])

\* the categories in their declaration order
CategoryOrder == <<"faq", "policy", "contact", "billing", "cancellation", "refund">>

\* some keyword of the c-th category occurs in s when case is ignored
HasKeywordOf(c, s) ==
  \E k \in 1..Len(contentTypes[c].keywords) :
    OccursIgnoringCase(contentTypes[c].keywords[k], s)

\* category is the first one of CategoryOrder with a keyword in s, or
\* 'general' when there is none
FirstCategory(category, s) ==
  \/ /\ category = "general"
     /\ \A c \in 1..Len(CategoryOrder) : ~HasKeywordOf(c, s)
  \/ \E c \in 1..Len(CategoryOrder) :
       /\ category = CategoryOrder[c]
       /\ contentTypes[c].category = CategoryOrder[c]
       /\ HasKeywordOf(c, s)
       /\ \A d \in 1..(c - 1) : ~HasKeywordOf(d, s)

\* C15: categorizeLink(url, text) returns the first category in declaration
\* order with a keyword occurring, case ignored, in url + ' ' + text, and
\* 'general' when no category has one; a second call on the same pair
\* returns the same category
C15_FirstCategoryInOrder ==
  call.method = "categorizeLink" =>
    \A k \in 1..Len(call.returned) :
      /\ FirstCategory(call.returned[k], call.url \o <<" ">> \o call.text)
      /\ call.returned[k] = call.returned[1]

\* two calls on a URL with 'refund' and a text with 'Policy' have returned
\* 'policy', the earlier of the two categories
C15_Witness ==
  /\ call.method = "categorizeLink"
  /\ call.returned = <<"policy", "policy">>
  /\ Includes(call.url, <<"r","e","f","u","n","d">>)
  /\ Includes(call.text, <<"P","o","l","i","c","y">>)

\* href is an absolute URL: it begins with a scheme
IsAbsolute(href) == SchemeLen(href) > 0

\* C19 as stated: resolveUrl returns an absolute href unchanged, origin + href
\* for a href that starts with a slash, and for any other href a URL of the
\* site of the current page
C19_ResolveByKind ==
  (call.method = "resolveUrl" /\ call.returned # <<>>) =>
    LET href == call.url
        got == call.returned[1]
    IN  /\ ~got.threw
        /\ IF IsAbsolute(href) THEN got.href = href
           ELSE IF StartsWith(href, <<"/">>) THEN got.href = Origin \o href
           ELSE StartsWith(got.href, Origin \o <<"/">>)

\* the list element has an item that is not empty after trimming
HasNonEmptyItem(list) == \E n \in 1..Len(list.items) : Trim(list.items[n]) # <<>>

\* the lists of doc with a non-empty item, in document order, as extractLists
\* renders a list
RECURSIVE NonEmptyLists(_)
NonEmptyLists(doc) ==
  IF doc = <<>> THEN <<>>
  ELSE (IF HasNonEmptyItem(Head(doc))
        THEN <<[type |-> ToLowerCase(Head(doc).tagName),
                items |-> [n \in 1..Len(Head(doc).items) |-> Trim(Head(doc).items[n])]]>>
        ELSE <<>>)
       \o NonEmptyLists(Tail(doc))

\* C20 as stated: extractLists returns exactly the lists of the document that
\* have a non-empty item, in document order
C20_OnlyListsWithNonEmptyItem ==
  (call.method = "extractLists" /\ call.returned # <<>>) =>
    call.returned[1] = NonEmptyLists(call.doc)

\* C21: crawlSinglePage settles once, by what the callback is given: it
\* resolves with the extracted content exactly when a response is present
\* with success true, and otherwise it rejects with the error of the
\* response as message, or with 'Failed to fetch content' when the response
\* is absent or has no error
C21_SettlesByResponse ==
  call.method = "crawlSinglePage" =>
    /\ Len(call.returned) <= 1
    /\ \A k \in 1..Len(call.returned) :
         LET response == call.doc[1]
             settled == call.returned[k]
         IN  /\ settled.state \in {"fulfilled", "rejected"}
             /\ settled.state = "fulfilled" <=> (response.present /\ response.success)
             /\ settled.state = "fulfilled" =>
                  settled.content = Some(extractContentFromHtml(response.html))
             /\ settled.state = "rejected" =>
                  settled.message =
                    IF response.present /\ response.error \notin {Undefined, ""}
                    THEN response.error ELSE "Failed to fetch content"

\* a response with success false and no error, although it has html, has
\* rejected the promise with the default message
C21_Witness ==
  /\ call.method = "crawlSinglePage"
  /\ call.returned # <<>>
  /\ call.doc[1].present /\ ~call.doc[1].success
  /\ call.doc[1].html # Null
  /\ call.doc[1].error = Undefined
  /\ call.returned[1].state = "rejected"
  /\ call.returned[1].message = "Failed to fetch content"

\* the links of run r for which a fetch has been issued
Fetched(r) == {j \in 1..Len(supportLinks[r]) : outcome[r][j] \in {"pending", "ok", "failed"}}

\* C22: within one crawl session at most one fetch is issued per URL, also
\* when the candidate list holds the URL more than once, in one batch or in
\* different batches, and whatever the outcome of the first fetch
C22_OneFetchPerUrl ==
  \A r \in Runs : \A j, k \in Fetched(r) :
    supportLinks[r][j].url = supportLinks[r][k].url => j = k

\* the number of pages in the per-category lists of supportSections
RECURSIVE PagesHeld(_)
PagesHeld(structured) ==
  IF structured = <<>> THEN 0
  ELSE Len(Head(structured).value) + PagesHeld(Tail(structured))

\* C23: in every successful result of performDeepAnalysis, of the first run
\* and of every later run on the analyzer, pagesAnalyzed is the number of
\* pages held in supportSections
C23_PagesAnalyzedCountsSections ==
  \A r \in Runs :
    result[r].status = "ok" => result[r].pagesAnalyzed = PagesHeld(result[r].supportSections)

\* the URLs for which run r has issued a fetch
FetchedUrls(r) == {supportLinks[r][j].url : j \in Fetched(r)}

\* performDeepAnalysis of run r has been called and has not settled
Running(r) == pc[r] \notin {"idle", "done"}

\* the fetches of runs r and q in flight together are at most 3
InFlightTogetherAtMostThree(r, q) == Cardinality(InFlight(r)) + Cardinality(InFlight(q)) <= 3

\* C24: when two runs of performDeepAnalysis on the shared analyzer overlap,
\* the page fetches in flight never number more than 3 in total, and no URL
\* is fetched by both runs
C24_OverlappingRunsShareLimit ==
  \A r, q \in Runs :
    (r # q /\ Running(r) /\ Running(q)) =>
      /\ InFlightTogetherAtMostThree(r, q)
      /\ FetchedUrls(r) \cap FetchedUrls(q) = {}

\* C25: for a 'performDeepAnalysis' message the listener calls sendResponse
\* once, after the analysis has settled and not before, and with success
\* true: what the analysis resolved to, the error object included, is passed
\* as data, and the response with success false is never sent
C25_OneSuccessResponse ==
  \A r \in Runs :
    /\ Len(sent[r]) <= 1
    /\ sent[r] # <<>> => pc[r] = "done"
    /\ (pc[r] = "done" /\ sent[r] = <<>>) => ENABLED ListenerSettled(r)
    /\ \A k \in 1..Len(sent[r]) :
         /\ sent[r][k].success
         /\ sent[r][k].data = result[r]
         /\ sent[r][k].error = Undefined

\* an analysis that failed during discovery has been answered with success
\* true and data.error
C25_Witness ==
  \E r \in Runs :
    /\ sent[r] # <<>>
    /\ sourceLog[r] # <<>>
    /\ sent[r][1].success
    /\ sent[r][1].data.status = "error"
    /\ sent[r][1].data.error # Undefined

====
